---- MODULE Spec2Model ----
(***************************************************************************)
(* Model of get-repos.py: the resumable paginated fetcher that lists       *)
(* public repositories, appends one CSV row per repository to the output   *)
(* file and derives its cursor (`since`) from the ids already in the file. *)
(*                                                                         *)
(* The process is sequential.  pc is the position of the one thread:       *)
(*   "start"    before the body of __main__ (lines 259-265)                *)
(*   "request"  at the top of get_repos_with_backoff (line 191)            *)
(*   "iter"     at `for repo in repos` of save_repos_to_file (line 153)    *)
(*   "entity"   inside the loop body with `repo` bound (lines 154-167)     *)
(*   "backoff"  in the RateLimitExceededException handler (line 196)       *)
(*   "sleep"    at time.sleep(sleep_time) (line 204)                       *)
(*   "crashed"  an exception left the program                              *)
(***************************************************************************)
EXTENDS Integers, Sequences, FiniteSets, TLC

VARIABLES
    files,            \* the file system: file name -> the rows of the file
    filename,         \* args.filename (line 237)
    pc,               \* position of the process
    since,            \* last_id / since of the current call
    pos,              \* id of the last repository the remote iterator served
    cur,              \* `repo` of the loop body (NoRepo outside the body)
    outcome,          \* what the last run of the loop body did with `repo`
    log,              \* number of messages in errors.log
    reset_timestamp,  \* line 198
    now,              \* calendar.timegm(time.gmtime()) of line 200
    sleep_time,       \* line 200
    error             \* the exception that ended the process, "none" otherwise

vars == <<files, filename, pc, since, pos, cur, outcome, log,
          reset_timestamp, now, sleep_time, error>>

-----------------------------------------------------------------------------
(* Bounds of the model *)

\* Identifiers the remote can serve are 1..MaxId.
MaxId == 3
\* The output file holds at most MaxStore records (a remote that is not served further).
MaxStore == 2
\* errors.log holds at most MaxLog messages.
MaxLog == 1
\* Timestamps are 0..MaxTime.
MaxTime == 10
\* Files found at process start hold at most MaxPreLen records, with ids in
\* 1..MaxPreId or one of 5 and 12.
MaxPreLen == 3
MaxPreId == 3

-----------------------------------------------------------------------------
(* Values *)

\* github.GithubObject.NotSet: "no since parameter".  Ids are positive, and
\* 0 is the start-up default of line 259, so -1 stands for the sentinel.
NotSet == -1

ReposCsv == "repos.csv"
OtherCsv == "other.csv"
\* Values of --filename: the default and one other name.
FileNames == {ReposCsv, OtherCsv}

\* The save_results_to argument of the call of line 265.
SaveResultsTo == ReposCsv

\* Values of the clock, and of the reset time the remote reports: the
\* earliest and the latest one.
Times == 0..MaxTime
ResetTimes == {0, MaxTime}

HeaderRow == [kind |-> "header", id |-> NotSet, public |-> TRUE, language |-> "", fork |-> FALSE]

RecordRow(repo) ==
    [kind |-> "rec", id |-> repo.n, public |-> repo.public,
     language |-> repo.language, fork |-> repo.fork]

\* A row whose id column is text that is no number.
TextRow == [kind |-> "text", id |-> NotSet, public |-> TRUE, language |-> "", fork |-> FALSE]

NoRepo == [n |-> 0, idKind |-> "none", public |-> FALSE, language |-> "", fork |-> FALSE, err |-> "none"]

\* What reading the attributes of a repository can raise (lines 158-160):
\*   "rate_limit"   RateLimitExceededException
\*   "gh_dict"      GithubException whose data is a dict (no attribute `message`)
\*   "gh_message"   GithubException whose data has an attribute `message`
\*   "gh_no_data"   GithubException without an attribute `data`
GithubErrs == {"gh_dict", "gh_message", "gh_no_data"}

\* The (public, language, fork) of a repository: one that passes the filter
\* and one failing each conjunct of it.
Profiles ==
    { [public |-> TRUE,  language |-> "C",      fork |-> FALSE],
      [public |-> FALSE, language |-> "C",      fork |-> FALSE],
      [public |-> TRUE,  language |-> "Python", fork |-> FALSE],
      [public |-> TRUE,  language |-> "C",      fork |-> TRUE] }

\* The repositories the remote can serve as number n: readable ones with an
\* integer id, readable ones whose id is missing or is no integer, and ones
\* whose attributes raise when read.
Repos(n) ==
    { [n |-> n, idKind |-> "int", public |-> p.public, language |-> p.language,
       fork |-> p.fork, err |-> "none"] : p \in Profiles }
    \cup
    { [n |-> n, idKind |-> k, public |-> TRUE, language |-> "C",
       fork |-> FALSE, err |-> "none"] : k \in {"missing", "bad"} }
    \cup
    { [n |-> n, idKind |-> "int", public |-> TRUE, language |-> "C",
       fork |-> FALSE, err |-> e] : e \in GithubErrs \cup {"rate_limit"} }

-----------------------------------------------------------------------------
(* Pure functions *)

RECURSIVE SetMax(_)
SetMax(S) ==
    LET x == CHOOSE y \in S : TRUE
    IN  IF S = {x} THEN x
        ELSE LET m == SetMax(S \ {x}) IN IF x > m THEN x ELSE m

\* A get_max_id that takes the minimum.
get_max_id_min(ids) ==
    IF ids = {} THEN NotSet ELSE CHOOSE x \in ids : \A y \in ids : x <= y

\* get_max_id: df.id.max(), NotSet when it is NaN (no ids).
get_max_id(ids) == IF ids = {} THEN NotSet ELSE SetMax(ids)

is_repo_we_care_about(repo) ==
    repo.public /\ repo.language = "C" /\ ~repo.fork

\* An open that truncates the file (mode="w").
open_truncate(fs, name) == [fs EXCEPT ![name] = <<>>]

\* A file is the sequence of its rows.  A file that does not exist and an
\* empty one are both <<>>: every access of the program is either
\* open(name, mode="a"), which creates the file and keeps its contents, or
\* pd.read_csv, which raises on both.
open_append(fs, name) == fs

\* f.tell() of a file opened for appending: 0 iff the file is empty.
tell(file) == Len(file)

\* A to_csv that writes the header with every record.
NeedHeaderAlways(file) == TRUE

\* header=f.tell() == 0 of line 167.
NeedHeader(file) == tell(file) = 0

\* df.to_csv(f, header=..., index=False) of one record.
to_csv(file, repo) ==
    (IF NeedHeader(file) THEN file \o <<HeaderRow>> ELSE file) \o <<RecordRow(repo)>>

\* A read_csv that drops the lines whose id is no number.
read_csv_lenient(file) ==
    \/ Len(file) = 0
    \/ file[1].kind # "header"

\* pd.read_csv(name, usecols=["id"], dtype Int64) raises when the file does
\* not exist or is empty, has no header line naming `id` first, or holds a
\* later line whose id column is no number (the text of a header, or other
\* text).
read_csv_fails(file) ==
    \/ Len(file) = 0
    \/ file[1].kind # "header"
    \/ \E i \in 2..Len(file) : file[i].kind # "rec"

\* The id column of the data frame read_csv returns.
read_csv_ids(file) ==
    { file[i].id : i \in { j \in 1..Len(file) : file[j].kind = "rec" } }

NumRecords(file) ==
    Cardinality({ j \in 1..Len(file) : file[j].kind = "rec" })

\* A sleep_time without the margin of 5 seconds.
SleepTimeNoMargin(reset, t) == reset - t

\* sleep_time of line 200.
SleepTime(reset, t) == reset - t + 5

\* A handler order in which `except GithubException` comes first.
is_rate_limit_never(e) == FALSE

\* Lines 168-169: `except RateLimitExceededException` stands before
\* `except GithubException`, its base class, and re-raises.
is_rate_limit(e) == e = "rate_limit"

\* An id check that lets every record through.
id_is_int_always(repo) == TRUE

\* Lines 162-165: int(repo_dict["id"]) does not raise.  It raises KeyError
\* for a repository without an id and ValueError or TypeError for an id that
\* is no integer.
id_is_int(repo) == repo.idKind = "int"

-----------------------------------------------------------------------------
(* Initial state: nothing has run, no file exists. *)

Init ==
    /\ files = [f \in FileNames |-> <<>>]
    /\ filename \in FileNames
    /\ pc = "start"
    /\ since = 0
    /\ pos = 0
    /\ cur = NoRepo
    /\ outcome = "none"
    /\ log = 0
    /\ reset_timestamp = 0
    /\ now = 0
    /\ sleep_time = 0
    /\ error = "none"

Clock == <<reset_timestamp, now, sleep_time>>

\* An exception leaves the program.
Crash(e) ==
    /\ pc' = "crashed"
    /\ error' = e

\* A re-derivation that takes the id after the maximum as the cursor.
RederiveNext(fs) ==
    IF read_csv_fails(fs[SaveResultsTo])
    THEN /\ Crash("read_csv")
         /\ UNCHANGED since
    ELSE /\ since' = get_max_id(read_csv_ids(fs[SaveResultsTo])) + 1
         /\ pc' = "request"
         /\ UNCHANGED error

\* Lines 206-213: read the id column of save_results_to, take its maximum
\* and call get_repos_with_backoff again.
Rederive(fs) ==
    IF read_csv_fails(fs[SaveResultsTo])
    THEN /\ Crash("read_csv")
         /\ UNCHANGED since
    ELSE /\ since' = get_max_id(read_csv_ids(fs[SaveResultsTo]))
         /\ pc' = "request"
         /\ UNCHANGED error

-----------------------------------------------------------------------------
(* The body of __main__, lines 259-265 *)

\* last_id = 0; open args.filename for appending (creating it); when it is
\* not empty read its id column and take the maximum; then call
\* get_repos_with_backoff(save_results_to="repos.csv", since=last_id).
Main ==
    /\ pc = "start"
    /\ files' = open_append(files, filename)
    /\ IF tell(files'[filename]) # 0
       THEN IF read_csv_fails(files'[filename])
            THEN Crash("read_csv") /\ UNCHANGED since
            ELSE /\ since' = get_max_id(read_csv_ids(files'[filename]))
                 /\ pc' = "request"
                 /\ UNCHANGED error
       ELSE /\ since' = 0
            /\ pc' = "request"
            /\ UNCHANGED error
    /\ UNCHANGED <<filename, pos, cur, outcome, log, Clock>>

-----------------------------------------------------------------------------
(* get_repos_with_backoff, lines 191-194 *)

\* github.get_repos(since=since, visibility="public") returns the sequence of
\* the repositories with an id above since; save_repos_to_file opens
\* save_results_to for appending.
Request ==
    /\ pc = "request"
    /\ files' = open_append(files, SaveResultsTo)
    /\ pos' = IF since = NotSet THEN 0 ELSE since
    /\ pc' = "iter"
    /\ outcome' = "none"
    /\ UNCHANGED <<filename, since, cur, log, Clock, error>>

\* The request itself raises RateLimitExceededException.
RequestRateLimit ==
    /\ pc = "request"
    /\ pc' = "backoff"
    /\ UNCHANGED <<files, filename, since, pos, cur, outcome, log, Clock, error>>

\* The request raises another GithubException: nothing catches it.
RequestError ==
    /\ pc = "request"
    /\ Crash("GithubException")
    /\ UNCHANGED <<files, filename, since, pos, cur, outcome, log, Clock>>

-----------------------------------------------------------------------------
(* save_repos_to_file, lines 151-183 *)

\* `for repo in repos` yields the next repository, one with an id above the
\* ones served before.
NextRepo ==
    /\ pc = "iter"
    /\ NumRecords(files[SaveResultsTo]) < MaxStore
    /\ \E n \in (pos + 1)..MaxId : \E r \in Repos(n) :
          /\ r.err = "gh_message" => log < MaxLog
          /\ cur' = r
          /\ pos' = n
    /\ pc' = "entity"
    /\ outcome' = "none"
    /\ UNCHANGED <<files, filename, since, log, Clock, error>>

\* `for repo in repos` raises RateLimitExceededException while fetching:
\* re-raised at line 183 and caught at line 196.
IterRateLimit ==
    /\ pc = "iter"
    /\ pc' = "backoff"
    /\ pos' = 0
    /\ outcome' = "none"
    /\ UNCHANGED <<files, filename, since, cur, log, Clock, error>>

\* `for repo in repos` raises another GithubException: outside the inner
\* try, so nothing catches it.
IterError ==
    /\ pc = "iter"
    /\ Crash("GithubException")
    /\ pos' = 0
    /\ outcome' = "none"
    /\ UNCHANGED <<files, filename, since, cur, log, Clock>>

\* The sequence is exhausted: save_repos_to_file returns and lines 206-213
\* re-derive the cursor.
PageEnd ==
    /\ pc = "iter"
    /\ Rederive(files)
    /\ pos' = 0
    /\ outcome' = "none"
    /\ UNCHANGED <<files, filename, cur, log, Clock>>

\* The loop body, lines 154-181, for the repository cur.
Process ==
    /\ pc = "entity"
    /\ cur' = NoRepo
    /\ CASE is_rate_limit(cur.err) ->
              \* lines 168-169, 182-183: re-raised up to line 196
              /\ pc' = "backoff"
              /\ pos' = 0
              /\ outcome' = "none"
              /\ UNCHANGED <<files, log, error>>
         [] cur.err = "gh_no_data" ->
              \* line 180: raise e
              /\ Crash("GithubException")
              /\ pos' = 0
              /\ outcome' = "none"
              /\ UNCHANGED <<files, log>>
         [] cur.err = "gh_message" ->
              \* lines 171-178, 181: logged, next repository
              /\ log' = log + 1
              /\ pc' = "iter"
              /\ outcome' = "skipped_error"
              /\ UNCHANGED pos
              /\ UNCHANGED <<files, error>>
         [] cur.err \in {"gh_dict", "rate_limit"} ->
              \* lines 171-172, 181: hasattr(e.data, 'message') is false
              /\ pc' = "iter"
              /\ outcome' = "skipped_error"
              /\ UNCHANGED pos
              /\ UNCHANGED <<files, log, error>>
         [] cur.err = "none" /\ ~id_is_int(cur) ->
              \* lines 162-165: int(repo_dict["id"]) raises, continue
              /\ pc' = "iter"
              /\ outcome' = "skipped_id"
              /\ UNCHANGED pos
              /\ UNCHANGED <<files, log, error>>
         [] OTHER ->
              \* lines 166-167
              /\ files' = [files EXCEPT ![SaveResultsTo] = to_csv(@, cur)]
              /\ pc' = "iter"
              /\ outcome' = "appended"
              /\ UNCHANGED pos
              /\ UNCHANGED <<log, error>>
    /\ UNCHANGED <<filename, since, Clock>>

-----------------------------------------------------------------------------
(* get_repos_with_backoff, lines 196-213 *)

\* Lines 197-202: read the reset time and the clock, compute sleep_time.
Backoff ==
    /\ pc = "backoff"
    /\ \E r \in ResetTimes, t \in Times :
          /\ reset_timestamp' = r
          /\ now' = t
          /\ sleep_time' = SleepTime(r, t)
    /\ pc' = "sleep"
    /\ UNCHANGED <<files, filename, since, pos, cur, outcome, log, error>>

\* Line 204: time.sleep raises ValueError for a negative argument; otherwise
\* lines 206-213 re-derive the cursor.
Sleep ==
    /\ pc = "sleep"
    /\ IF sleep_time < 0
       THEN Crash("sleep") /\ UNCHANGED since
       ELSE Rederive(files)
    /\ reset_timestamp' = 0
    /\ now' = 0
    /\ sleep_time' = 0
    /\ UNCHANGED <<files, filename, pos, cur, outcome, log>>

-----------------------------------------------------------------------------
(* The process is stopped (interrupt, or it crashed) and invoked again, with
   any --filename.  The files and errors.log stay. *)
Restart ==
    /\ pc # "start"
    /\ pc' = "start"
    /\ filename' \in FileNames
    /\ since' = 0
    /\ pos' = 0
    /\ cur' = NoRepo
    /\ outcome' = "none"
    /\ reset_timestamp' = 0
    /\ now' = 0
    /\ sleep_time' = 0
    /\ error' = "none"
    /\ UNCHANGED <<files, log>>

Next ==
    \/ Main
    \/ Request
    \/ RequestRateLimit
    \/ RequestError
    \/ NextRepo
    \/ IterRateLimit
    \/ IterError
    \/ PageEnd
    \/ Process
    \/ Backoff
    \/ Sleep
    \/ Restart

Spec == Init /\ [][Next]_vars

-----------------------------------------------------------------------------
(* The program started on files it finds: an output file written by earlier
   runs (ids in any order, possibly with a line whose id is no number) and a
   file of another name.  The remote has no repository to serve. *)

PreIds == 1..MaxPreId \cup {5, 12}

\* The row of a repository that passes the filter.
PreRecord(n) ==
    [kind |-> "rec", id |-> n, public |-> TRUE, language |-> "C", fork |-> FALSE]

\* The sequences of k records.
PreRecords(k) ==
    { [i \in 1..k |-> PreRecord(q[i])] : q \in [1..k -> PreIds] }

\* Files whose id column can be read: empty, or a header and records.
ReadableStores ==
    {<<>>} \cup
    UNION { { <<HeaderRow>> \o r : r \in PreRecords(k) } : k \in 1..MaxPreLen }

\* Files with one line whose id is no number.
UnreadableStores ==
    { <<HeaderRow>> \o a \o <<TextRow>> \o b :
        a \in PreRecords(0) \cup PreRecords(1), b \in PreRecords(0) \cup PreRecords(1) }

PreStores == ReadableStores \cup UnreadableStores

OtherStores == {<<>>} \cup { <<HeaderRow, PreRecord(n)>> : n \in PreIds }

InitFound ==
    /\ files \in { [f \in FileNames |-> IF f = SaveResultsTo THEN s ELSE o] :
                     s \in PreStores, o \in OtherStores }
    /\ filename \in FileNames
    /\ pc = "start"
    /\ since = 0
    /\ pos = 0
    /\ cur = NoRepo
    /\ outcome = "none"
    /\ log = 0
    /\ reset_timestamp = 0
    /\ now = 0
    /\ sleep_time = 0
    /\ error = "none"

NextFound ==
    \/ Main
    \/ Request
    \/ RequestRateLimit
    \/ RequestError
    \/ IterRateLimit
    \/ IterError
    \/ PageEnd
    \/ Backoff
    \/ Sleep
    \/ Restart

SpecFound == InitFound /\ [][NextFound]_vars

-----------------------------------------------------------------------------
(* The program left to run: the steps of the process itself are taken as long
   as they can be; the errors of the remote and the restart are not. *)

ProgramStep ==
    \/ Main
    \/ Request
    \/ NextRepo
    \/ PageEnd
    \/ Process
    \/ Backoff
    \/ Sleep

FairSpec == Spec /\ WF_vars(ProgramStep)

-----------------------------------------------------------------------------
(* Properties *)

\* The file the records are appended to.
Store == files[SaveResultsTo]

RecordIdx(file) == { j \in 1..Len(file) : file[j].kind = "rec" }

\* C1: every record in the store satisfies the filter: public, language "C",
\* not a fork.
CE_C1 ==
    \A i \in RecordIdx(Store) : is_repo_we_care_about(Store[i])

\* C2: the store never holds the same identifier twice, across restarts and
\* fetch cycles (the remote serving only identifiers above `since`).
CE_C2 ==
    \A i, j \in RecordIdx(Store) : i # j => Store[i].id # Store[j].id

\* C3: every page request uses as `since` the maximum identifier present in
\* the store the records are appended to (stated for a store with records).
CE_C3 ==
    (pc = "request" /\ NumRecords(Store) > 0)
        => since = get_max_id(read_csv_ids(Store))

\* C4: whenever the store holds no records the derived cursor is "unset",
\* both at process start and when re-derived after a page or a backoff.
CE_C4 ==
    [][ /\ (Main /\ NumRecords(files'[filename]) = 0)
             => (pc' = "request" /\ since' = NotSet)
        /\ ((PageEnd \/ (Sleep /\ sleep_time >= 0)) /\ NumRecords(Store) = 0)
             => (pc' = "request" /\ since' = NotSet) ]_vars

\* C5: a rate-limit error is always followed by the backoff sleep and then by
\* a new page request, whatever the store contains (stated for the sleep
\* times time.sleep accepts).
CE_C5 ==
    [][ /\ (pc = "backoff" /\ pc' # "start") => pc' = "sleep"
        /\ (pc = "sleep" /\ sleep_time >= 0 /\ pc' # "start") => pc' = "request" ]_vars

\* C6: in every file the header row appears at most once and, when present,
\* is the first row.
T_C6 ==
    \A f \in FileNames : \A i \in 1..Len(files[f]) :
        files[f][i].kind = "header" => i = 1

\* A store written by several append cycles of several process runs: it
\* starts with the header and holds one identifier twice.
W_C6 ==
    /\ Len(Store) >= 3
    /\ Store[1].kind = "header"
    /\ \E i, j \in RecordIdx(Store) : i # j /\ Store[i].id = Store[j].id

\* C7: a repository whose id is missing or is no integer is never appended:
\* the loop body leaves every file unchanged and goes on with the next
\* repository.
T_C7 ==
    [][ (pc = "entity" /\ cur.idKind # "int" /\ pc' # "start")
            => (files' = files /\ pc' = "iter") ]_vars

\* The loop body has just skipped a repository for its id, with records in
\* the store.
W_C7 ==
    /\ pc = "iter"
    /\ outcome = "skipped_id"
    /\ NumRecords(Store) > 0

\* C8: a GithubException that is no rate-limit error, raised while a
\* repository is processed, is logged, nothing is appended, and the loop goes
\* on with the next repository (stated for the exceptions that carry `data`).
CE_C8 ==
    [][ (pc = "entity" /\ cur.err \in {"gh_dict", "gh_message"} /\ pc' # "start")
            => (files' = files /\ pc' = "iter" /\ log' = log + 1) ]_vars

\* C9: when sleep_time is zero or negative the backoff is a no-op delay: no
\* error is raised and the next page is requested (stated for a store whose
\* id column can be read).
CE_C9 ==
    [][ (pc = "sleep" /\ sleep_time <= 0 /\ ~read_csv_fails(Store) /\ pc' # "start")
            => (pc' = "request" /\ error' = "none") ]_vars

\* C10: the sleep duration is reset time - now + 5; it is 15 when now is
\* 10 seconds before the reset time.
T_C10 ==
    pc = "sleep" =>
        /\ sleep_time = reset_timestamp - now + 5
        /\ (now = reset_timestamp - 10 => sleep_time = 15)

\* The backoff computed while the clock is 10 seconds before the reset time.
W_C10 ==
    /\ pc = "sleep"
    /\ now = reset_timestamp - 10
    /\ sleep_time = 15

\* m is the maximum of the ids of the records of file.
IsMaxOf(m, file) ==
    /\ \E i \in RecordIdx(file) : file[i].id = m
    /\ \A i \in RecordIdx(file) : file[i].id <= m

\* The id column of file holds text that is no number.
IdColumnUnreadable(file) == \E i \in 1..Len(file) : file[i].kind = "text"

IsPrefix(a, b) ==
    /\ Len(a) <= Len(b)
    /\ \A i \in 1..Len(a) : a[i] = b[i]

\* C11: for every non-empty collection of integer ids in the store, in any
\* order, the derived cursor is their maximum, at process start and in the
\* loop.
T_C11 ==
    [][ /\ (Main /\ pc' = "request" /\ NumRecords(files[filename]) > 0)
             => IsMaxOf(since', files[filename])
        /\ ((PageEnd \/ Sleep) /\ pc' = "request")
             => IsMaxOf(since', Store) ]_vars

\* The cursor 12 derived from a store holding the ids 5, 12, 3 in this order.
W_C11 ==
    /\ pc = "request"
    /\ Store = <<HeaderRow, PreRecord(5), PreRecord(12), PreRecord(3)>>
    /\ since = 12

\* C12: records are appended to the file named by --filename: the file the
\* start cursor is read from is the only file a step changes.
CE_C12 ==
    [][ \A f \in FileNames : files'[f] # files[f] => f = filename ]_vars

\* C13: after every page completion and after every backoff another page
\* request is issued (stated for a store whose id column can be read, the
\* checkpoint parse failure being excepted).
CE_C13 ==
    [][ ((PageEnd \/ Sleep) /\ ~read_csv_fails(Store)) => pc' = "request" ]_vars

\* C14: when the id column of the file cannot be read as numbers the cursor
\* derivation ends the process: the cursor is left as it was, no request
\* follows, and only a new start leaves the crashed process.
T_C14 ==
    [][ /\ (Main /\ IdColumnUnreadable(files[filename]))
             => (pc' = "crashed" /\ error' = "read_csv" /\ since' = since)
        /\ ((PageEnd \/ Sleep) /\ IdColumnUnreadable(Store))
             => (pc' = "crashed" /\ since' = since)
        /\ pc = "crashed" => pc' \in {"crashed", "start"} ]_vars

\* The process ended by the derivation on a store with an unreadable id.
W_C14 ==
    /\ pc = "crashed"
    /\ error = "read_csv"
    /\ IdColumnUnreadable(Store)

T_C16 ==
    [][ \A f \in FileNames :
          /\ IsPrefix(files[f], files'[f])
          /\ files'[f] # files[f] =>
                /\ f = SaveResultsTo
                /\ pc = "entity" /\ cur.err = "none" /\ cur.idKind = "int"
                /\ files'[f][Len(files'[f])] = RecordRow(cur)
                /\ Len(files'[f]) = Len(files[f]) + (IF Len(files[f]) = 0 THEN 2 ELSE 1)
      ]_vars

\* A record has just been appended to a store that held records already.
W_C16 ==
    /\ pc = "iter"
    /\ outcome = "appended"
    /\ NumRecords(Store) >= 2

\* C17: a rate-limit error raised for a repository leaves the loop for the
\* backoff without an append; backoff and sleep change no file; the loop
\* body, where appends happen, is entered only from the loop, and the loop
\* only after a request.
T_C17 ==
    [][ /\ (pc = "entity" /\ cur.err = "rate_limit" /\ pc' # "start")
             => (pc' = "backoff" /\ files' = files)
        /\ (pc = "backoff" /\ pc' # "start")
             => (pc' = "sleep" /\ files' = files)
        /\ (pc = "sleep" /\ pc' # "start")
             => (pc' \in {"request", "crashed"} /\ files' = files)
        /\ (pc' = "entity" /\ pc # "entity") => pc = "iter"
        /\ (pc' = "iter" /\ pc # "iter") => pc \in {"request", "entity"} ]_vars

\* The backoff entered in the middle of a sequence: the store holds a record
\* above the cursor of the request.
W_C17 ==
    /\ pc = "backoff"
    /\ NumRecords(Store) > 0
    /\ get_max_id(read_csv_ids(Store)) > since

\* C18: within one process run the cursor never decreases (NotSet being
\* below every id), from the start-up cursor on.
CE_C18 ==
    [][ (pc # "start" /\ pc' # "start") => since' >= since ]_vars

\* C19: no repository is lost to a rate-limit interruption: the process left
\* to run (an interrupt aside) comes from every backoff to a new page request,
\* without which the repositories not yet served are never appended.
CE_C19 ==
    (pc = "backoff") ~> (pc \in {"request", "start"})
====
